---- MODULE Spec2Model ----
(***************************************************************************)
(* A model of podocarp/dynlb-go: the interleaved weighted round-robin      *)
(* selector (internal/rr/roundrobin.go) and the adaptive load balancer     *)
(* built on it (lb/lb.go).                                                 *)
(*                                                                         *)
(* The specifications below share the definitions and the variables:       *)
(*   SelSpec      the selector used on its own (Dispatch, UpdateWeights);  *)
(*   BuiltSpec    a selector as NewWeightedRoundRobin builds it, under     *)
(*                Dispatch calls only;                                     *)
(*   Spec         the balancer under concurrent dispatchers and the tick   *)
(*                task, with handlers that succeed or answer ErrExceedCap; *)
(*   CallSpec     one caller, handlers that may answer anything, the tick  *)
(*                task, Start and Destroy; FairCallSpec adds fairness of   *)
(*                the tick task;                                           *)
(*   BackoffSpec  one caller and a handler that keeps answering            *)
(*                ErrExceedCap;                                            *)
(*   TickSpec     the estimator: counts, ticks, configurations;            *)
(*   SeqSpec      one caller dispatching again and again on a newly built  *)
(*                balancer that was never started, the picks recorded;     *)
(*   RoundSpec    a selector over three handlers, every return recorded    *)
(*                with its round;                                          *)
(*   IdleSpec     the estimator with all completions on handler 0;         *)
(*   ExploreSpec  one caller on balancers of one handler and more, with    *)
(*                ExplorationRate 0, the default and 1.                    *)
(***************************************************************************)
EXTENDS Integers, Sequences, FiniteSets, TLC

(***************************************************************************)
(* Bounds of the model.                                                    *)
(***************************************************************************)
NumHandlers == 2
NumDispatchers == 2
MaxWeight == 3
MaxCalls == 1
MaxAttempts == 2
MaxRetries == 1
MaxTicks == 1
MaxDestroys == 2
MaxEstCap == 3
SeqLen == 104
RoundHandlers == 3
RoundMaxWeight == 5
RoundCalls == 20
IdleCalls == 3
IdleTicks == 4
ExploreCalls == 5
MaxObserved == 1
EstTicks == 3
MaxBackoffs == 12

Handlers == 0 .. (NumHandlers - 1)
Dispatchers == 1 .. NumDispatchers
WeightVectors == [Handlers -> 0 .. MaxWeight]
ZeroVector == [i \in Handlers |-> 0]
NoIndex == 0 - 1

VARIABLES
    wrr,        \* the selector: [weights, rounds, currIndex, currRound]
    selOut,     \* SelSpec: what the last selector call returned
    selHung,    \* SelSpec: the selector's Dispatch loop never exits
    cyc,        \* SelSpec: per handler, returns since round 1 was last entered
    cycFull,    \* SelSpec: round 1 was entered under the weights now installed
    fullCycles, \* SelSpec: cyc of every cycle that ran from round 1 to its end under the weights now installed
    caps,       \* l.caps, in units of 1/CapScale task per second
    calls,      \* l.calls
    rejections, \* l.rejections
    mut,        \* l.mut: Free, TickTask or the dispatcher that holds it
    done,       \* l.done: the number of tokens in the channel
    explorationRate, \* l.ExplorationRate, in 1/CapScale
    config,     \* l.Config: SmoothingFactor, AIMDIncrease, AIMDDecreaseFactor, in 1/CapScale
    handlerEstCap, \* the EstCap of the handlers given to NewLoadBalancer
    tickPc,     \* where the tick task (spin) is
    tickI,      \* updateLoads: i
    tickCalls,  \* updateLoads: calls
    tickRejects, \* updateLoads: rejects
    nTicks,     \* ticks completed
    nDestroys,  \* Destroy calls made
    pc,         \* per dispatcher: where its Dispatch call is
    index,      \* per dispatcher: Dispatch's index
    attempts,   \* per dispatcher: tryDispatch's attempts
    res,        \* per dispatcher: tryDispatch's res
    err,        \* per dispatcher: tryDispatch's err
    sleepFor,   \* per dispatcher: the duration of its last backoff sleep, in BackoffUnit
    ctxDone,    \* per dispatcher: its context is cancelled
    nCalls,     \* per dispatcher: Dispatch calls that returned
    obs,        \* per dispatcher: what its current Dispatch call has done so far
    hist        \* the record a specification keeps (selections, returns, ticks)

selVars == <<wrr, selOut, selHung, cyc, cycFull, fullCycles>>
tickVars == <<tickPc, tickI, tickCalls, tickRejects, nTicks>>
lbVars == <<caps, calls, rejections, mut, done, explorationRate, config, handlerEstCap, nDestroys>>
dispVars == <<pc, index, attempts, res, err, sleepFor, ctxDone, nCalls, obs>>
vars == <<wrr, selOut, selHung, cyc, cycFull, fullCycles, caps, calls, rejections,
          mut, done, explorationRate, config, handlerEstCap, nDestroys, tickPc, tickI, tickCalls,
          tickRejects, nTicks, pc, index, attempts, res, err, sleepFor, ctxDone,
          nCalls, obs, hist>>

(***************************************************************************)
(* internal/rr/roundrobin.go                                               *)
(***************************************************************************)
Max(a, b) == IF a >= b THEN a ELSE b
Min(a, b) == IF a <= b THEN a ELSE b

RECURSIVE MaxUpTo(_, _)
MaxUpTo(w, i) == IF i = 0 THEN w[0] ELSE Max(w[i], MaxUpTo(w, i - 1))

\* slices.Max(r.weights)
SliceMax(w) == MaxUpTo(w, Cardinality(DOMAIN w) - 1)

RECURSIVE SumUpTo(_, _)
SumUpTo(w, i) == IF i < 0 THEN 0 ELSE w[i] + SumUpTo(w, i - 1)

SliceSum(w) == SumUpTo(w, Cardinality(DOMAIN w) - 1)

\* len(r.weights)
LenWeights(r) == Cardinality(DOMAIN r.weights)

NewWeightedRoundRobin(weights) ==
    [weights |-> weights, rounds |-> 0, currIndex |-> 0, currRound |-> 0]

\* advanceIndex with the wrap test off by one (>= for >): the last round of a
\* cycle is never served.
advanceIndexWrapsEarly(r) ==
    IF r.currIndex + 1 >= LenWeights(r)
    THEN [r EXCEPT !.currIndex = 0,
                   !.currRound = IF r.currRound + 1 >= r.rounds
                                 THEN 1
                                 ELSE r.currRound + 1]
    ELSE [r EXCEPT !.currIndex = r.currIndex + 1]

advanceIndex(r) ==
    IF r.currIndex + 1 >= LenWeights(r)
    THEN [r EXCEPT !.currIndex = 0,
                   !.currRound = IF r.currRound + 1 > r.rounds
                                 THEN 1
                                 ELSE r.currRound + 1]
    ELSE [r EXCEPT !.currIndex = r.currIndex + 1]

\* The loop of Dispatch (lines 33-39) reads and writes only the cursor: a run
\* of it that has taken more steps than there are cursor values it can see
\* (len(weights) indices, rounds currRound..max(currRound, rounds) and 1) has
\* repeated one, and never exits.
ScanFuel(r) == LenWeights(r) * (Max(r.currRound, r.rounds) + 2)

\* The loop of Dispatch with its test strict (> for >=): a handler is skipped
\* in the round equal to its weight.
RECURSIVE ScanLoopStrict(_, _)
ScanLoopStrict(r, fuel) ==
    IF r.weights[r.currIndex] > r.currRound
    THEN [exits |-> TRUE, at |-> r]
    ELSE IF fuel = 0
         THEN [exits |-> FALSE, at |-> r]
         ELSE ScanLoopStrict(advanceIndex(r), fuel - 1)

RECURSIVE ScanLoop(_, _)
ScanLoop(r, fuel) ==
    IF r.weights[r.currIndex] >= r.currRound
    THEN [exits |-> TRUE, at |-> r]
    ELSE IF fuel = 0
         THEN [exits |-> FALSE, at |-> r]
         ELSE ScanLoop(advanceIndex(r), fuel - 1)

\* WeightedRoundRobin.Dispatch: returns |-> FALSE is the call that never returns.
WRRDispatch(r) ==
    LET s == ScanLoop(r, ScanFuel(r)) IN
    IF s.exits
    THEN [returns |-> TRUE, index |-> s.at.currIndex, round |-> s.at.currRound,
          rr |-> advanceIndex(s.at)]
    ELSE [returns |-> FALSE, index |-> NoIndex, round |-> s.at.currRound, rr |-> s.at]

GetWeights(r) == r.weights

\* UpdateWeights, line 51: r.weights = weights
SetWeights(r, weights) == [r EXCEPT !.weights = weights]

\* An UpdateWeights that leaves r.rounds as it was.
SetRoundsSkipped(r) == r

\* UpdateWeights, line 52: r.rounds = slices.Max(r.weights)
SetRounds(r) == [r EXCEPT !.rounds = SliceMax(r.weights)]

UpdateWeights(r, weights) == SetRounds(SetWeights(r, weights))

(***************************************************************************)
(* lb/lb.go                                                                *)
(***************************************************************************)
\* float64 capacities and rates are kept in units of 1/CapScale.
CapScale == 1000
MulScaled(a, f) == (a * f) \div CapScale

\* Config's defaults, NewLoadBalancer lines 68-76.
BackoffMaxExponent == 10
UpdateIntervalSeconds == 1
SmoothingFactor == 500
ExplorationRate == 100
AIMDIncrease == 100
AIMDDecreaseFactor == 900
\* The Config a new balancer has.
DefaultConfig ==
    [SmoothingFactor |-> SmoothingFactor, AIMDIncrease |-> AIMDIncrease,
     AIMDDecreaseFactor |-> AIMDDecreaseFactor]
\* updateLoads: the idle decay 0.99 and the floor 0.1.
IdleDecay == 990
MinCap == 100
\* updateWeights: the 100 of c / l.totalCap * 100.
Percent == 100
\* make(chan struct{}, 2)
DoneCap == 2

\* l.mut
Free == <<"free">>
TickTask == <<"tick">>
HeldBy(d) == <<"dispatcher", d>>

\* Errors. ErrExceedCap is the sentinel; ErrWrapped is an error that wraps it
\* (fmt.Errorf("...: %w", ErrExceedCap)); ErrCanceled is ctx.Err() of a
\* cancelled context; ErrOther is any other error of a handler.
ErrNil == "nil"
ErrExceedCap == "lb exceed capacity"
ErrWrapped == "wraps: lb exceed capacity"
ErrOther == "other"
ErrCanceled == "context canceled"

\* errors.Is(e, target)
ErrorsIs(e, target) ==
    \/ e = target
    \/ e = ErrWrapped /\ target = ErrExceedCap

\* var res U (the zero value), and the value a handler returns.
ZeroRes == "zero"
ResVals == {"u"}

RECURSIVE Pow2(_)
Pow2(n) == IF n = 0 THEN 1 ELSE 2 * Pow2(n - 1)

\* A backoff without the min of line 172.
backoffUncapped(i) == Pow2(i)

\* backoff(i): the sleep, in units of BackoffUnit.
backoff(i) == Pow2(Min(BackoffMaxExponent, i))

\* updateLoads without the floor of line 146.
updateLoadsCapNoFloor(c, nCallsRead, nRejectsRead) ==
    LET c1 == IF nCallsRead > 0 THEN c + config.AIMDIncrease ELSE c
        c2 == IF nRejectsRead > 0 THEN MulScaled(c1, config.AIMDDecreaseFactor) ELSE c1
        estCap == (nCallsRead * CapScale) \div UpdateIntervalSeconds
        c3 == IF nCallsRead > 0 \/ nRejectsRead > 0
              THEN MulScaled(config.SmoothingFactor, estCap)
                   + MulScaled(CapScale - config.SmoothingFactor, c2)
              ELSE c2
    IN IF nCallsRead = 0 /\ nRejectsRead = 0 THEN MulScaled(c3, IdleDecay) ELSE c3

\* updateLoads without the idle decay of lines 142-144.
updateLoadsCapNoDecay(c, nCallsRead, nRejectsRead) ==
    LET c1 == IF nCallsRead > 0 THEN c + config.AIMDIncrease ELSE c
        c2 == IF nRejectsRead > 0 THEN MulScaled(c1, config.AIMDDecreaseFactor) ELSE c1
        estCap == (nCallsRead * CapScale) \div UpdateIntervalSeconds
        c3 == IF nCallsRead > 0 \/ nRejectsRead > 0
              THEN MulScaled(config.SmoothingFactor, estCap)
                   + MulScaled(CapScale - config.SmoothingFactor, c2)
              ELSE c2
    IN Max(c3, MinCap)

\* updateLoads, lines 122-146, for one handler: the new l.caps[i].
updateLoadsCap(c, nCallsRead, nRejectsRead) ==
    LET c1 == IF nCallsRead > 0 THEN c + config.AIMDIncrease ELSE c
        c2 == IF nRejectsRead > 0 THEN MulScaled(c1, config.AIMDDecreaseFactor) ELSE c1
        estCap == (nCallsRead * CapScale) \div UpdateIntervalSeconds
        c3 == IF nCallsRead > 0 \/ nRejectsRead > 0
              THEN MulScaled(config.SmoothingFactor, estCap)
                   + MulScaled(CapScale - config.SmoothingFactor, c2)
              ELSE c2
        c4 == IF nCallsRead = 0 /\ nRejectsRead = 0 THEN MulScaled(c3, IdleDecay) ELSE c3
    IN Max(c4, MinCap)

\* updateWeights with the quotient rounded up instead of truncated.
newWeightsRoundedUp(cs) ==
    LET totalCap == SliceSum(cs)
    IN [i \in DOMAIN cs |-> (cs[i] * Percent + totalCap - 1) \div totalCap]

\* updateWeights: newWeights.
newWeights(cs) ==
    LET totalCap == SliceSum(cs)
    IN [i \in DOMAIN cs |-> (cs[i] * Percent) \div totalCap]

updateWeights(r, cs) == UpdateWeights(r, newWeights(cs))

\* NewLoadBalancer, lines 79-84: l.caps and the selector it leaves.
InitialCaps(estCaps) == [i \in DOMAIN estCaps |-> Max(estCaps[i] * CapScale, CapScale)]

\* A NewLoadBalancer without the updateWeights of line 84.
NewLoadBalancerWRRNoWeights(estCaps) ==
    NewWeightedRoundRobin([i \in DOMAIN estCaps |-> 0])

NewLoadBalancerWRR(estCaps) ==
    updateWeights(NewWeightedRoundRobin([i \in DOMAIN estCaps |-> 0]), InitialCaps(estCaps))

\* Variants of the test of line 187: == in place of errors.Is, and a retry
\* on every error.
RetriesOnEqualOnly(e) == e = ErrExceedCap
RetriesOnAnyError(e) == e # ErrNil

\* tryDispatch, line 187: the loop goes on (no break L).
Retries(e) == ErrorsIs(e, ErrExceedCap)

\* A select that never looks at ctx.Done().
SelectCaseDefaultOnly(ctxIsDone) == "default"

\* tryDispatch, lines 182-185: which case the select takes.
SelectCase(ctxIsDone) == IF ctxIsDone THEN "ctx.Done" ELSE "default"

\* Variants of the two Add(1): one that adds to every handler's counter, one
\* that adds nothing.
CallsAddToAll(cls, i) == [j \in Handlers |-> cls[j] + 1]
RejectionsAddNothing(rej, i) == rej

\* tryDispatch, line 190 and line 196: the counters after the Add(1).
RejectionsAdd(rej, i) == [rej EXCEPT ![i] = @ + 1]
CallsAdd(cls, i) == [cls EXCEPT ![i] = @ + 1]

\* A Dispatch that goes on to tryDispatch without the Unlock.
UnlockedNot(d) == HeldBy(d)

\* Dispatch, line 210: l.mut after the Unlock.
Unlocked(d) == Free

\* Dispatch, line 205: the exploring pick may be taken, the selector may be asked.
MayExplore(rate) == rate > 0 /\ LenWeights(wrr) > 1
MayAskSelector(rate) == ~MayExplore(rate) \/ rate < CapScale

(***************************************************************************)
(* The balancer's state after NewLoadBalancer, and the dispatchers.        *)
(***************************************************************************)
EstCapVectors == [Handlers -> 0 .. MaxEstCap]
\* The handler lists of Spec: all hints 0, and hints that grow with the index.
SpecEstCaps == {ZeroVector, [i \in Handlers |-> Min(i * MaxEstCap, MaxEstCap)]}

\* What one Dispatch call has done so far: the Add(1)s it made to the two
\* counters, its handler invocations, the ErrExceedCap answers among them,
\* its backoff sleeps, the handler's last answer, whether the context was
\* cancelled at the first pass of the select, and, when the handler has
\* answered an error that does not match ErrExceedCap, the invocations and
\* sleeps counted at that answer; the index chosen in the selection step and
\* the indices of the handlers it has invoked.
NewObs ==
    [calls |-> ZeroVector, rejects |-> ZeroVector, invocations |-> 0,
     exceeded |-> 0, sleeps |-> 0, hres |-> ZeroRes, herr |-> ErrNil,
     ctxFirst |-> "unset", otherAt |-> <<>>, chosen |-> NoIndex, invoked |-> {}]

Delta(new, old) == [i \in Handlers |-> new[i] - old[i]]
Plus(a, b) == [i \in Handlers |-> a[i] + b[i]]

SelIdle ==
    /\ selOut = NoIndex
    /\ selHung = FALSE
    /\ cyc = ZeroVector
    /\ cycFull = FALSE
    /\ fullCycles = {}

LbInitWith(estCaps, rate, conf) ==
    /\ wrr = NewLoadBalancerWRR(estCaps)
    /\ caps = InitialCaps(estCaps)
    /\ calls = ZeroVector
    /\ rejections = ZeroVector
    /\ mut = Free
    /\ done = 0
    /\ explorationRate = rate
    /\ config = conf
    /\ handlerEstCap = estCaps
    /\ nDestroys = 0
    /\ tickPc = "none"
    /\ tickI = 0
    /\ tickCalls = 0
    /\ tickRejects = 0
    /\ nTicks = 0
    /\ pc = [d \in Dispatchers |-> "idle"]
    /\ index = [d \in Dispatchers |-> NoIndex]
    /\ attempts = [d \in Dispatchers |-> 0]
    /\ res = [d \in Dispatchers |-> ZeroRes]
    /\ err = [d \in Dispatchers |-> ErrNil]
    /\ sleepFor = [d \in Dispatchers |-> 0]
    /\ ctxDone = [d \in Dispatchers |-> FALSE]
    /\ nCalls = [d \in Dispatchers |-> 0]
    /\ obs = [d \in Dispatchers |-> NewObs]
    /\ hist = <<>>

LbInit(estCaps, rate) == LbInitWith(estCaps, rate, DefaultConfig)

\* A caller enters Dispatch(ctx, param).
Call(d, limit) ==
    /\ pc[d] = "idle"
    /\ nCalls[d] < limit
    /\ pc' = [pc EXCEPT ![d] = "lock"]
    /\ UNCHANGED <<index, attempts, res, err, sleepFor, ctxDone, nCalls, obs>>
    /\ UNCHANGED <<lbVars, tickVars, selVars, hist>>

\* The caller's context is cancelled (or its deadline passes).
CtxCancel(d) ==
    /\ pc[d] \in {"lock", "select", "unlock", "loop", "handler", "backoff"}
    /\ ~ctxDone[d]
    /\ ctxDone' = [ctxDone EXCEPT ![d] = TRUE]
    /\ UNCHANGED <<pc, index, attempts, res, err, sleepFor, nCalls, obs>>
    /\ UNCHANGED <<lbVars, tickVars, selVars, hist>>

\* Dispatch, line 203: l.mut.Lock()
Lock(d) ==
    /\ pc[d] = "lock"
    /\ mut = Free
    /\ mut' = HeldBy(d)
    /\ pc' = [pc EXCEPT ![d] = "select"]
    /\ UNCHANGED <<index, attempts, res, err, sleepFor, ctxDone, nCalls, obs>>
    /\ UNCHANGED <<caps, calls, rejections, done, explorationRate, config, handlerEstCap, nDestroys>>
    /\ UNCHANGED <<tickVars, selVars, hist>>

\* Dispatch, lines 204-209: the index, and the selector after it.
\* An exploring pick that also advances the selector.
AfterExploreAdvanced(r) == WRRDispatch(r).rr

\* Dispatch, line 206: the selector after the exploring pick, which does not
\* call it.
AfterExplore(r) == r

\* Dispatch, line 206: index = rand.Intn(len(l.dispatch))
PickExploring(d) ==
    /\ MayExplore(explorationRate)
    /\ \E i \in 0 .. (LenWeights(wrr) - 1) : index' = [index EXCEPT ![d] = i]
    /\ wrr' = AfterExplore(wrr)

\* Dispatch, line 208: index = l.WeightedRoundRobin.Dispatch()
PickBySelector(d) ==
    /\ MayAskSelector(explorationRate)
    /\ WRRDispatch(wrr).returns
    /\ index' = [index EXCEPT ![d] = WRRDispatch(wrr).index]
    /\ wrr' = WRRDispatch(wrr).rr

SelectIndex(d) ==
    /\ pc[d] = "select"
    /\ PickExploring(d) \/ PickBySelector(d)
    /\ pc' = [pc EXCEPT ![d] = "unlock"]
    /\ obs' = [obs EXCEPT ![d].chosen = index'[d]]
    /\ UNCHANGED <<attempts, res, err, sleepFor, ctxDone, nCalls>>
    /\ UNCHANGED <<lbVars, tickVars>>
    /\ UNCHANGED <<selOut, selHung, cyc, cycFull, fullCycles>>

Select(d) == SelectIndex(d) /\ UNCHANGED hist

\* Dispatch, line 210: l.mut.Unlock(), and on to tryDispatch.
Unlock(d) ==
    /\ pc[d] = "unlock"
    /\ mut' = Unlocked(d)
    /\ pc' = [pc EXCEPT ![d] = "loop"]
    /\ UNCHANGED <<index, attempts, res, err, sleepFor, ctxDone, nCalls, obs>>
    /\ UNCHANGED <<caps, calls, rejections, done, explorationRate, config, handlerEstCap, nDestroys>>
    /\ UNCHANGED <<tickVars, selVars, hist>>

\* A retry that asks the selector again for the handler to invoke.
InvokedIndexReselected(d) == WRRDispatch(wrr).index

\* tryDispatch, line 186: the handler invoked is l.dispatch[index], index
\* being the parameter Dispatch passed.
InvokedIndex(d) == index[d]

\* tryDispatch, lines 182-186: the select; it returns ctx.Err() or calls the handler.
LoopSelect(d) ==
    /\ pc[d] = "loop"
    /\ LET first == IF obs[d].ctxFirst # "unset" THEN obs[d].ctxFirst
                    ELSE IF ctxDone[d] THEN "cancelled" ELSE "live"
       IN
       IF SelectCase(ctxDone[d]) = "ctx.Done"
       THEN /\ pc' = [pc EXCEPT ![d] = "returned"]
            /\ err' = [err EXCEPT ![d] = ErrCanceled]
            /\ obs' = [obs EXCEPT ![d].ctxFirst = first]
       ELSE /\ pc' = [pc EXCEPT ![d] = "handler"]
            /\ err' = err
            /\ obs' = [obs EXCEPT ![d].ctxFirst = first,
                                  ![d].invocations = @ + 1,
                                  ![d].invoked = @ \cup {InvokedIndex(d)}]
    /\ UNCHANGED <<index, attempts, res, sleepFor, ctxDone, nCalls>>
    /\ UNCHANGED <<lbVars, tickVars, selVars, hist>>

\* What the handler may answer: any result with any error; ErrExceedCap (bare
\* or wrapped) at most MaxAttempts times in one call; the context's error
\* once the context is cancelled.
HandlerErrs(d) ==
    {ErrNil, ErrOther}
    \cup (IF attempts[d] < MaxAttempts THEN {ErrExceedCap, ErrWrapped} ELSE {})
    \cup (IF ctxDone[d] THEN {ErrCanceled} ELSE {})

\* tryDispatch, lines 186-198: the handler returns (r, e).
HandlerAnswers(d, errs) ==
    /\ pc[d] = "handler"
    /\ \E r \in ResVals, e \in errs :
          /\ res' = [res EXCEPT ![d] = r]
          /\ err' = [err EXCEPT ![d] = e]
          /\ IF Retries(e)
             THEN /\ rejections' = RejectionsAdd(rejections, index[d])
                  /\ calls' = calls
                  /\ sleepFor' = [sleepFor EXCEPT ![d] = backoff(attempts[d])]
                  /\ pc' = [pc EXCEPT ![d] = "backoff"]
             ELSE /\ calls' = CallsAdd(calls, index[d])
                  /\ rejections' = rejections
                  /\ sleepFor' = sleepFor
                  /\ pc' = [pc EXCEPT ![d] = "returned"]
          /\ obs' = [obs EXCEPT
                ![d].hres = r,
                ![d].herr = e,
                ![d].exceeded = IF ErrorsIs(e, ErrExceedCap) THEN @ + 1 ELSE @,
                ![d].sleeps = IF Retries(e) THEN @ + 1 ELSE @,
                ![d].calls = Plus(@, Delta(calls', calls)),
                ![d].rejects = Plus(@, Delta(rejections', rejections)),
                ![d].otherAt = IF e # ErrNil /\ ~ErrorsIs(e, ErrExceedCap) /\ @ = <<>>
                               THEN <<[res |-> r, err |-> e,
                                       invocations |-> obs[d].invocations,
                                       sleeps |-> obs[d].sleeps]>>
                               ELSE @]
    /\ UNCHANGED <<index, attempts, ctxDone, nCalls>>
    /\ UNCHANGED <<caps, mut, done, explorationRate, config, handlerEstCap, nDestroys>>
    /\ UNCHANGED <<tickVars, selVars, hist>>

HandlerReturn(d) == HandlerAnswers(d, HandlerErrs(d))

\* Handlers that only succeed or report ErrExceedCap, the latter at most
\* MaxRetries times in one call.
CapacityErrs(d) ==
    {ErrNil} \cup (IF attempts[d] < MaxRetries THEN {ErrExceedCap} ELSE {})

\* tryDispatch, lines 191-192: the sleep of backoff ends; attempts++.
BackoffDone(d) ==
    /\ pc[d] = "backoff"
    /\ attempts' = [attempts EXCEPT ![d] = @ + 1]
    /\ pc' = [pc EXCEPT ![d] = "loop"]
    /\ UNCHANGED <<index, res, err, sleepFor, ctxDone, nCalls, obs>>
    /\ UNCHANGED <<lbVars, tickVars, selVars, hist>>

\* The caller has (res, err) and is free to call again; the call's frame is gone.
Return(d) ==
    /\ pc[d] = "returned"
    /\ pc' = [pc EXCEPT ![d] = "idle"]
    /\ nCalls' = [nCalls EXCEPT ![d] = @ + 1]
    /\ index' = [index EXCEPT ![d] = NoIndex]
    /\ attempts' = [attempts EXCEPT ![d] = 0]
    /\ res' = [res EXCEPT ![d] = ZeroRes]
    /\ err' = [err EXCEPT ![d] = ErrNil]
    /\ sleepFor' = [sleepFor EXCEPT ![d] = 0]
    /\ ctxDone' = [ctxDone EXCEPT ![d] = FALSE]
    /\ obs' = [obs EXCEPT ![d] = NewObs]
    /\ UNCHANGED <<lbVars, tickVars, selVars, hist>>

(***************************************************************************)
(* The tick task (spin), Start and Destroy.                                *)
(***************************************************************************)
\* Start: go l.spin()
Start ==
    /\ tickPc = "none"
    /\ tickPc' = "wait"
    /\ UNCHANGED <<tickI, tickCalls, tickRejects, nTicks>>
    /\ UNCHANGED <<lbVars, dispVars, selVars, hist>>

\* A Destroy that returns without sending the token.
DestroyNoToken ==
    /\ nDestroys < MaxDestroys
    /\ nDestroys' = nDestroys + 1
    /\ UNCHANGED <<caps, calls, rejections, mut, done, explorationRate, config, handlerEstCap>>
    /\ UNCHANGED <<tickVars, dispVars, selVars, hist>>

\* A send on an unbuffered l.done that no receiver is waiting for.
SendBlocksUnbuffered(n) == n >= 0

\* l.done <- struct{}{} blocks while the channel holds DoneCap tokens.
SendBlocks(n) == n >= DoneCap

\* Destroy: l.done <- struct{}{}
Destroy ==
    /\ nDestroys < MaxDestroys
    /\ ~SendBlocks(done)
    /\ done' = done + 1
    /\ nDestroys' = nDestroys + 1
    /\ UNCHANGED <<caps, calls, rejections, mut, explorationRate, config, handlerEstCap>>
    /\ UNCHANGED <<tickVars, dispVars, selVars, hist>>

\* spin, lines 93-94: the ticker fires and the task takes the mutex.
TickLock ==
    /\ tickPc = "wait"
    /\ nTicks < MaxTicks
    /\ mut = Free
    /\ mut' = TickTask
    /\ tickPc' = "loadCalls"
    /\ tickI' = 0
    /\ UNCHANGED <<tickCalls, tickRejects, nTicks>>
    /\ UNCHANGED <<caps, calls, rejections, done, explorationRate, config, handlerEstCap, nDestroys>>
    /\ UNCHANGED <<dispVars, selVars, hist>>

\* updateLoads, line 122: calls := l.calls[i].Load()
TickLoadCalls ==
    /\ tickPc = "loadCalls"
    /\ tickCalls' = calls[tickI]
    /\ tickPc' = "loadRejects"
    /\ UNCHANGED <<tickI, tickRejects, nTicks>>
    /\ UNCHANGED <<lbVars, dispVars, selVars, hist>>

\* updateLoads, lines 123-146: rejects := l.rejections[i].Load(), and l.caps[i].
TickLoadRejects ==
    /\ tickPc = "loadRejects"
    /\ tickRejects' = rejections[tickI]
    /\ caps' = [caps EXCEPT ![tickI] = updateLoadsCap(@, tickCalls, rejections[tickI])]
    /\ tickPc' = "storeCalls"
    /\ UNCHANGED <<tickI, tickCalls, nTicks>>
    /\ UNCHANGED <<calls, rejections, mut, done, explorationRate, config, handlerEstCap, nDestroys>>
    /\ UNCHANGED <<dispVars, selVars, hist>>

\* updateLoads, line 147: l.calls[i].Store(0)
TickStoreCalls ==
    /\ tickPc = "storeCalls"
    /\ calls' = [calls EXCEPT ![tickI] = 0]
    /\ tickPc' = "storeRejects"
    /\ UNCHANGED <<tickI, tickCalls, tickRejects, nTicks>>
    /\ UNCHANGED <<caps, rejections, mut, done, explorationRate, config, handlerEstCap, nDestroys>>
    /\ UNCHANGED <<dispVars, selVars, hist>>

\* updateLoads, line 148: l.rejections[i].Store(0), and the next i.
TickStoreRejects ==
    /\ tickPc = "storeRejects"
    /\ rejections' = [rejections EXCEPT ![tickI] = 0]
    /\ IF tickI + 1 < NumHandlers
       THEN tickI' = tickI + 1 /\ tickPc' = "loadCalls"
       ELSE tickI' = tickI /\ tickPc' = "weights"
    /\ UNCHANGED <<tickCalls, tickRejects, nTicks>>
    /\ UNCHANGED <<caps, calls, mut, done, explorationRate, config, handlerEstCap, nDestroys>>
    /\ UNCHANGED <<dispVars, selVars, hist>>

\* spin, line 96: l.updateWeights(), up to the first assignment of
\* UpdateWeights (r.weights = weights).
TickUpdateWeights ==
    /\ tickPc = "weights"
    /\ wrr' = SetWeights(wrr, newWeights(caps))
    /\ tickPc' = "rounds"
    /\ UNCHANGED <<tickI, tickCalls, tickRejects, nTicks>>
    /\ UNCHANGED <<lbVars, dispVars, hist>>
    /\ UNCHANGED <<selOut, selHung, cyc, cycFull, fullCycles>>

\* The second assignment of UpdateWeights (r.rounds = slices.Max(r.weights)).
TickUpdateRounds ==
    /\ tickPc = "rounds"
    /\ wrr' = SetRounds(wrr)
    /\ tickPc' = "unlock"
    /\ UNCHANGED <<tickI, tickCalls, tickRejects, nTicks>>
    /\ UNCHANGED <<lbVars, dispVars, hist>>
    /\ UNCHANGED <<selOut, selHung, cyc, cycFull, fullCycles>>

\* spin, line 97: l.mut.Unlock()
TickUnlock ==
    /\ tickPc = "unlock"
    /\ mut' = Free
    /\ tickPc' = "wait"
    /\ nTicks' = nTicks + 1
    /\ UNCHANGED <<tickI, tickCalls, tickRejects>>
    /\ UNCHANGED <<caps, calls, rejections, done, explorationRate, config, handlerEstCap, nDestroys>>
    /\ UNCHANGED <<dispVars, selVars, hist>>

\* spin, lines 98-100: a token is received from l.done; the task returns.
TickExit ==
    /\ tickPc = "wait"
    /\ done > 0
    /\ done' = done - 1
    /\ tickPc' = "exited"
    /\ UNCHANGED <<tickI, tickCalls, tickRejects, nTicks>>
    /\ UNCHANGED <<caps, calls, rejections, mut, explorationRate, config, handlerEstCap, nDestroys>>
    /\ UNCHANGED <<dispVars, selVars, hist>>

(***************************************************************************)
(* Spec: the balancer under concurrent dispatchers and the tick task.      *)
(***************************************************************************)
Init ==
    /\ SelIdle
    /\ \E e \in SpecEstCaps : LbInit(e, ExplorationRate)

\* One caller's steps, against handlers that answer only nil or ErrExceedCap.
Dispatcher(d) ==
    \/ Call(d, MaxCalls)
    \/ CtxCancel(d)
    \/ Lock(d)
    \/ Select(d)
    \/ Unlock(d)
    \/ LoopSelect(d)
    \/ HandlerAnswers(d, CapacityErrs(d))
    \/ BackoffDone(d)
    \/ Return(d)

\* spin, lines 93-97: one tick.
TickRound ==
    \/ TickLock
    \/ TickLoadCalls
    \/ TickLoadRejects
    \/ TickStoreCalls
    \/ TickStoreRejects
    \/ TickUpdateWeights
    \/ TickUpdateRounds
    \/ TickUnlock

Next ==
    \/ \E d \in Dispatchers : Dispatcher(d)
    \/ TickRound
    \/ Start

Spec == Init /\ [][Next]_vars

(***************************************************************************)
(* CallSpec: one caller, handlers that may answer anything, the tick task  *)
(* and Destroy.                                                            *)
(***************************************************************************)
Caller == 1

CallNext ==
    \/ Call(Caller, MaxCalls)
    \/ CtxCancel(Caller)
    \/ Lock(Caller)
    \/ Select(Caller)
    \/ Unlock(Caller)
    \/ LoopSelect(Caller)
    \/ HandlerReturn(Caller)
    \/ BackoffDone(Caller)
    \/ Return(Caller)
    \/ TickRound
    \/ TickExit
    \/ Start
    \/ Destroy

CallSpec == Init /\ [][CallNext]_vars

\* CallSpec under fair scheduling of the tick task: a tick that has begun
\* runs to its end, and spin's select, which picks at random among its ready
\* cases, takes the token of l.done once it has been ready again and again.
FairCallSpec ==
    /\ CallSpec
    /\ WF_vars(TickRound)
    /\ SF_vars(TickExit)

(***************************************************************************)
(* TickSpec: the estimator. Dispatch calls are seen only through the       *)
(* Add(1)s they make to the counters; a tick (spin, lines 93-97) is one    *)
(* step, as nothing else in this specification takes the mutex.            *)
(***************************************************************************)
\* Configurations at the ends of the documented domains, and the default.
Configs ==
    {DefaultConfig,
     [SmoothingFactor |-> CapScale, AIMDIncrease |-> 0, AIMDDecreaseFactor |-> CapScale],
     [SmoothingFactor |-> 0, AIMDIncrease |-> CapScale, AIMDDecreaseFactor |-> 1]}

TickInit ==
    /\ SelIdle
    /\ \E e \in EstCapVectors, k \in Configs : LbInitWith(e, ExplorationRate, k)

\* tryDispatch, line 196, of some Dispatch call.
CallCounted ==
    /\ \E i \in Handlers :
          /\ calls[i] < MaxObserved
          /\ calls' = CallsAdd(calls, i)
    /\ UNCHANGED <<caps, rejections, mut, done, explorationRate, config, handlerEstCap, nDestroys>>
    /\ UNCHANGED <<tickVars, dispVars, selVars, hist>>

\* tryDispatch, line 190, of some Dispatch call.
RejectionCounted ==
    /\ \E i \in Handlers :
          /\ rejections[i] < MaxObserved
          /\ rejections' = RejectionsAdd(rejections, i)
    /\ UNCHANGED <<caps, calls, mut, done, explorationRate, config, handlerEstCap, nDestroys>>
    /\ UNCHANGED <<tickVars, dispVars, selVars, hist>>

\* spin, lines 93-97: Lock, updateLoads, updateWeights, Unlock.
WholeTick ==
    /\ tickPc = "wait"
    /\ nTicks < EstTicks
    /\ mut = Free
    /\ caps' = [i \in Handlers |-> updateLoadsCap(caps[i], calls[i], rejections[i])]
    /\ calls' = ZeroVector
    /\ rejections' = ZeroVector
    /\ wrr' = updateWeights(wrr, caps')
    /\ nTicks' = nTicks + 1
    /\ UNCHANGED <<mut, done, explorationRate, config, handlerEstCap, nDestroys>>
    /\ UNCHANGED <<tickPc, tickI, tickCalls, tickRejects>>
    /\ UNCHANGED <<selOut, selHung, cyc, cycFull, fullCycles>>
    /\ UNCHANGED <<dispVars, hist>>

TickNext ==
    \/ Start
    \/ CallCounted
    \/ RejectionCounted
    \/ WholeTick

TickSpec == TickInit /\ [][TickNext]_vars

(***************************************************************************)
(* IdleSpec: a started balancer whose Dispatch calls all complete on       *)
(* handler 0, between 1 and IdleCalls of them in every tick interval, with *)
(* no rejection; the other handlers are never invoked. hist records, for   *)
(* every tick, the caps and weights before and after it.                   *)
(***************************************************************************)
\* tryDispatch, line 196, of a Dispatch call on handler 0.
IdleCallCounted ==
    /\ calls[0] < IdleCalls
    /\ calls' = CallsAdd(calls, 0)
    /\ UNCHANGED <<caps, rejections, mut, done, explorationRate, config, handlerEstCap, nDestroys>>
    /\ UNCHANGED <<tickVars, dispVars, selVars, hist>>

\* spin, lines 93-97, after at least one completion on handler 0.
IdleTick ==
    /\ tickPc = "wait"
    /\ Len(hist) < IdleTicks
    /\ mut = Free
    /\ calls[0] >= 1
    /\ caps' = [i \in Handlers |-> updateLoadsCap(caps[i], calls[i], rejections[i])]
    /\ calls' = ZeroVector
    /\ rejections' = ZeroVector
    /\ wrr' = updateWeights(wrr, caps')
    /\ hist' = Append(hist, [capsBefore |-> caps, capsAfter |-> caps',
                             weightsBefore |-> GetWeights(wrr),
                             weightsAfter |-> GetWeights(wrr')])
    /\ UNCHANGED <<mut, done, explorationRate, config, handlerEstCap, nDestroys>>
    /\ UNCHANGED <<tickVars, dispVars>>
    /\ UNCHANGED <<selOut, selHung, cyc, cycFull, fullCycles>>

IdleNext ==
    \/ Start
    \/ IdleCallCounted
    \/ IdleTick

IdleSpec == TickInit /\ [][IdleNext]_vars

(***************************************************************************)
(* BackoffSpec: one caller on a balancer that is never started, and a      *)
(* handler that answers ErrExceedCap up to MaxBackoffs times in a call.    *)
(***************************************************************************)
RejectingErrs(d) ==
    {ErrNil} \cup (IF attempts[d] < MaxBackoffs THEN {ErrExceedCap} ELSE {})

BackoffNext ==
    \/ Call(Caller, MaxCalls)
    \/ CtxCancel(Caller)
    \/ Lock(Caller)
    \/ Select(Caller)
    \/ Unlock(Caller)
    \/ LoopSelect(Caller)
    \/ HandlerAnswers(Caller, RejectingErrs(Caller))
    \/ BackoffDone(Caller)
    \/ Return(Caller)

BackoffSpec == Init /\ [][BackoffNext]_vars

(***************************************************************************)
(* SelSpec: the selector on its own.                                       *)
(***************************************************************************)
\* The scan of a call entered round 1 (the cursor wrapped to index 0 with
\* currRound 1) before it returned index idx from round rnd.
EnteredBefore(r, idx, rnd) ==
    /\ rnd = 1
    /\ \/ idx < r.currIndex
       \/ idx = r.currIndex /\ r.currRound # 1

\* The advance after returning idx entered round 1.
EnteredAfter(idx, post) ==
    /\ idx = NumHandlers - 1
    /\ post.currRound = 1

\* The balancer's own state is not used by SelSpec.
LbUnused ==
    /\ caps = ZeroVector
    /\ calls = ZeroVector
    /\ rejections = ZeroVector
    /\ mut = <<"free">>
    /\ done = 0
    /\ explorationRate = 0
    /\ config = DefaultConfig
    /\ handlerEstCap = ZeroVector
    /\ nDestroys = 0
    /\ tickPc = "none"
    /\ tickI = 0
    /\ tickCalls = 0
    /\ tickRejects = 0
    /\ nTicks = 0
    /\ pc = <<>>
    /\ index = <<>>
    /\ attempts = <<>>
    /\ res = <<>>
    /\ err = <<>>
    /\ sleepFor = <<>>
    /\ ctxDone = <<>>
    /\ nCalls = <<>>
    /\ obs = <<>>
    /\ hist = <<>>

SelInit ==
    /\ wrr \in {NewWeightedRoundRobin(w) : w \in WeightVectors}
    /\ selOut = NoIndex
    /\ selHung = FALSE
    /\ cyc = ZeroVector
    /\ cycFull = FALSE
    /\ fullCycles = {}
    /\ LbUnused

\* r.Dispatch() is called. A cycle is the run of returns between two entries
\* into round 1; cyc counts the returns of the cycle under way.
SelDispatchStep ==
    /\ ~selHung
    /\ LET d == WRRDispatch(wrr)
           before == EnteredBefore(wrr, d.index, d.round)
           after == EnteredAfter(d.index, d.rr)
           ended1 == IF before /\ cycFull THEN fullCycles \cup {cyc} ELSE fullCycles
           c1 == IF before THEN ZeroVector ELSE cyc
           f1 == before \/ cycFull
           c2 == [c1 EXCEPT ![d.index] = @ + 1]
           ended2 == IF after /\ f1 THEN ended1 \cup {c2} ELSE ended1
       IN
       IF d.returns
       THEN /\ wrr' = d.rr
            /\ selOut' = d.index
            /\ selHung' = FALSE
            /\ fullCycles' = ended2
            /\ cyc' = IF after THEN ZeroVector ELSE c2
            /\ cycFull' = (after \/ f1)
       ELSE /\ selHung' = TRUE
            /\ UNCHANGED <<wrr, selOut, cyc, cycFull, fullCycles>>
    /\ UNCHANGED <<lbVars, tickVars, dispVars>>

SelDispatch == SelDispatchStep /\ UNCHANGED hist

\* r.UpdateWeights(w) is called.
SelUpdateWeights ==
    /\ ~selHung
    /\ \E w \in WeightVectors : wrr' = UpdateWeights(wrr, w)
    /\ cyc' = ZeroVector
    /\ cycFull' = FALSE
    /\ fullCycles' = {}
    /\ UNCHANGED <<selOut, selHung>>
    /\ UNCHANGED <<lbVars, tickVars, dispVars, hist>>

SelNext == SelDispatch \/ SelUpdateWeights

SelSpec == SelInit /\ [][SelNext]_vars

(***************************************************************************)
(* BuiltSpec: a selector built by NewWeightedRoundRobin(weights) and used  *)
(* by Dispatch calls only; hist records what they return.                  *)
(***************************************************************************)
\* Calls enough for round 0 and two runs of sum-of-weights calls.
BuiltCalls == NumHandlers + 2 * NumHandlers * MaxWeight

BuiltDispatch ==
    /\ Len(hist) < BuiltCalls
    /\ SelDispatchStep
    /\ hist' = IF selHung' THEN hist ELSE Append(hist, selOut')

BuiltSpec == SelInit /\ [][BuiltDispatch]_vars

(***************************************************************************)
(* RoundSpec: a selector over RoundHandlers handlers with weights up to    *)
(* RoundMaxWeight; hist records, for every Dispatch since the weights were *)
(* last installed, the round the call returned in and the index returned.  *)
(***************************************************************************)
RoundIndices == 0 .. (RoundHandlers - 1)

RoundWeightVectors == [RoundIndices -> 0 .. RoundMaxWeight]

RoundInit ==
    /\ wrr \in {NewWeightedRoundRobin(w) : w \in RoundWeightVectors}
    /\ selOut = NoIndex
    /\ selHung = FALSE
    /\ cyc = ZeroVector
    /\ cycFull = FALSE
    /\ fullCycles = {}
    /\ LbUnused

RoundDispatch ==
    /\ ~selHung
    /\ Len(hist) < RoundCalls
    /\ LET d == WRRDispatch(wrr) IN
       IF d.returns
       THEN /\ wrr' = d.rr
            /\ selOut' = d.index
            /\ hist' = Append(hist, [round |-> d.round, index |-> d.index])
            /\ UNCHANGED selHung
       ELSE /\ selHung' = TRUE
            /\ UNCHANGED <<wrr, selOut, hist>>
    /\ UNCHANGED <<cyc, cycFull, fullCycles, lbVars, tickVars, dispVars>>

RoundUpdateWeights ==
    /\ ~selHung
    /\ \E w \in RoundWeightVectors : wrr' = UpdateWeights(wrr, w)
    /\ hist' = <<>>
    /\ UNCHANGED <<selOut, selHung, cyc, cycFull, fullCycles>>
    /\ UNCHANGED <<lbVars, tickVars, dispVars>>

RoundNext == RoundDispatch \/ RoundUpdateWeights

RoundSpec == RoundInit /\ [][RoundNext]_vars

(***************************************************************************)
(* SeqSpec: one caller, a newly constructed balancer with                  *)
(* ExplorationRate = 0 that is never started, handlers that succeed; hist   *)
(* records the indices selected.                                           *)
(***************************************************************************)

SeqInit ==
    /\ SelIdle
    /\ \E e \in EstCapVectors : LbInit(e, 0)

SeqSelect ==
    /\ SelectIndex(Caller)
    /\ hist' = Append(hist, index'[Caller])

SeqNext ==
    \/ Call(Caller, SeqLen)
    \/ Lock(Caller)
    \/ SeqSelect
    \/ Unlock(Caller)
    \/ LoopSelect(Caller)
    \/ HandlerAnswers(Caller, {ErrNil})
    \/ Return(Caller)

SeqSpec == SeqInit /\ [][SeqNext]_vars

(***************************************************************************)
(* ExploreSpec: one caller on a newly constructed balancer of 1 to         *)
(* NumHandlers handlers that is never started, with ExplorationRate 0, the *)
(* default or 1, handlers that succeed; hist records, for every selection, *)
(* the index and whether it was the exploring pick.                        *)
(***************************************************************************)
ExploreRates == {0, ExplorationRate, CapScale}

ExploreInit ==
    /\ SelIdle
    /\ \E n \in 1 .. NumHandlers, rate \in ExploreRates :
          \E e \in [0 .. (n - 1) -> 0 .. MaxEstCap] : LbInit(e, rate)

ExploreSelectFrame ==
    /\ pc[Caller] = "select"
    /\ pc' = [pc EXCEPT ![Caller] = "unlock"]
    /\ obs' = [obs EXCEPT ![Caller].chosen = index'[Caller]]
    /\ UNCHANGED <<attempts, res, err, sleepFor, ctxDone, nCalls>>
    /\ UNCHANGED <<lbVars, tickVars>>
    /\ UNCHANGED <<selOut, selHung, cyc, cycFull, fullCycles>>

ExploreSelect ==
    /\ pc[Caller] = "select"
    /\ \/ /\ PickExploring(Caller)
          /\ hist' = Append(hist, [explored |-> TRUE, index |-> index'[Caller]])
       \/ /\ PickBySelector(Caller)
          /\ hist' = Append(hist, [explored |-> FALSE, index |-> index'[Caller]])
    /\ ExploreSelectFrame

ExploreNext ==
    \/ Call(Caller, ExploreCalls)
    \/ Lock(Caller)
    \/ ExploreSelect
    \/ Unlock(Caller)
    \/ LoopSelect(Caller)
    \/ HandlerAnswers(Caller, {ErrNil})
    \/ Return(Caller)

ExploreSpec == ExploreInit /\ [][ExploreNext]_vars

(***************************************************************************)
(* Properties of one Dispatch call (CallSpec).                             *)
(***************************************************************************)
\* The call of d returned from the ctx.Done() case of tryDispatch's select.
ReturnedAtSelect(d) ==
    /\ pc[d] = "returned"
    /\ err[d] = ErrCanceled
    /\ obs[d].invocations = obs[d].exceeded

\* The call of d returned what the handler answered last.
ReturnedHandlerAnswer(d) ==
    /\ pc[d] = "returned"
    /\ obs[d].invocations = obs[d].exceeded + 1
    /\ res[d] = obs[d].hres
    /\ err[d] = obs[d].herr

\* The counter vector in which only handler i was incremented, n times.
OnlyAt(i, n) == [j \in Handlers |-> IF j = i THEN n ELSE 0]

\* C1: Dispatch never returns an error that matches ErrExceedCap: every
\* ErrExceedCap answer of the handler was followed by a backoff sleep, and the
\* call returns either the context's error from the select (after which the
\* handler is not invoked any more) or the answer of the handler's last
\* invocation, which does not match ErrExceedCap.
DispatchNeverReturnsExceedCap ==
    \A d \in Dispatchers :
        pc[d] = "returned" =>
            /\ ~ErrorsIs(err[d], ErrExceedCap)
            /\ obs[d].sleeps = obs[d].exceeded
            /\ \/ ReturnedAtSelect(d) /\ ctxDone[d]
               \/ ReturnedHandlerAnswer(d)

\* A call that returns nil after the handler answered ErrExceedCap MaxAttempts times.
ReturnedAfterExceedCaps ==
    /\ pc[Caller] = "returned"
    /\ err[Caller] = ErrNil
    /\ obs[Caller].exceeded = MaxAttempts
    /\ obs[Caller].sleeps = MaxAttempts

\* C2: a call whose handler answered, at its first invocation, an error that
\* does not match ErrExceedCap has incremented neither calls nor rejections.
OtherErrorTouchesNoCounter ==
    \A d \in Dispatchers :
        (/\ pc[d] = "returned"
         /\ obs[d].otherAt # <<>>
         /\ obs[d].exceeded = 0)
        => /\ obs[d].calls = ZeroVector
           /\ obs[d].rejects = ZeroVector

\* C3: a call that returns without error has incremented calls[index] exactly
\* once, and no counter of another handler.
SuccessCountsOnce ==
    \A d \in Dispatchers :
        (pc[d] = "returned" /\ err[d] = ErrNil) =>
            /\ obs[d].calls = OnlyAt(index[d], 1)
            /\ obs[d].rejects = OnlyAt(index[d], obs[d].exceeded)

\* A call that returned without error after a rejection, on the last handler.
SucceededAfterRejection ==
    /\ pc[Caller] = "returned"
    /\ err[Caller] = ErrNil
    /\ index[Caller] = NumHandlers - 1
    /\ obs[Caller].exceeded >= 1
    /\ obs[Caller].calls = OnlyAt(NumHandlers - 1, 1)

\* C4: once the handler has answered an error that does not match
\* ErrExceedCap, the call has returned that error and that result, and there
\* was no handler invocation and no backoff sleep after that answer.
OtherErrorReturnedAtOnce ==
    \A d \in Dispatchers :
        obs[d].otherAt # <<>> =>
            /\ pc[d] = "returned"
            /\ err[d] = obs[d].otherAt[1].err
            /\ res[d] = obs[d].otherAt[1].res
            /\ obs[d].invocations = obs[d].otherAt[1].invocations
            /\ obs[d].sleeps = obs[d].otherAt[1].sleeps

\* The handler answered ErrOther after a rejection, and the call returned it.
OtherErrorAfterRejection ==
    /\ obs[Caller].otherAt # <<>>
    /\ pc[Caller] = "returned"
    /\ err[Caller] = ErrOther
    /\ obs[Caller].exceeded >= 1

\* C5: a call whose context is cancelled at the first pass of the select
\* returns the context's error, never invokes the handler, and leaves every
\* calls[i] and rejections[i] as they were.
CancelledBeforeFirstInvocation ==
    \A d \in Dispatchers :
        obs[d].ctxFirst = "cancelled" =>
            /\ pc[d] = "returned"
            /\ err[d] = ErrCanceled
            /\ obs[d].invocations = 0
            /\ obs[d].calls = ZeroVector
            /\ obs[d].rejects = ZeroVector

\* A call that met a cancelled context at its first pass, and has returned.
ReturnedCancelledAtFirstPass ==
    /\ obs[Caller].ctxFirst = "cancelled"
    /\ pc[Caller] = "returned"
    /\ index[Caller] \in Handlers

MutexHeldOnlyForSelection ==
    /\ mut \in {Free, TickTask} \cup {HeldBy(d) : d \in Dispatchers}
    /\ mut = TickTask => tickPc \notin {"none", "wait", "exited"}
    /\ \A d \in Dispatchers :
          /\ mut = HeldBy(d) => pc[d] \in {"select", "unlock"}
          /\ pc[d] \in {"loop", "handler", "backoff", "returned"} => mut # HeldBy(d)

\* One dispatcher holds the mutex while another is inside its handler, after
\* the tick task has held and released it.
SelectingWhileOtherInHandler ==
    \E d, e \in Dispatchers :
        /\ mut = HeldBy(d)
        /\ pc[e] = "handler"
        /\ tickPc = "wait"
        /\ nTicks = MaxTicks

(***************************************************************************)
(* The selector (SelSpec).                                                 *)
(***************************************************************************)
\* C8: every Dispatch of the selector returns, and returns an index in [0, N).
SelectorDispatchReturnsIndex ==
    /\ ~selHung
    /\ selOut \in Handlers \cup {NoIndex}

\* C9: while the weights installed by UpdateWeights have a maximum >= 1, every
\* full cycle (the returns between two entries into round 1) has returned
\* handler i exactly weights[i] times.
FullCycleHonoursWeights ==
    wrr.rounds >= 1 => \A c \in fullCycles : c = wrr.weights

\* A full cycle was completed under weights with maximum MaxWeight that
\* are not all equal.
UnevenFullCycleDone ==
    /\ wrr.rounds = MaxWeight
    /\ wrr.weights \in fullCycles
    /\ \E i, j \in Handlers : wrr.weights[i] < wrr.weights[j]

(***************************************************************************)
(* The sequence of selections (SeqSpec).                                   *)
(***************************************************************************)
\* C10: the k-th and the (k + sum of the weights)-th selected index are equal,
\* for every k.
SelectionIsPeriodic ==
    LET period == SliceSum(wrr.weights) IN
    \A k \in 1 .. Len(hist) :
        k + period <= Len(hist) => hist[k] = hist[k + period]

(***************************************************************************)
(* The selector as built (BuiltSpec).                                      *)
(***************************************************************************)
\* How often handler i is returned by the n calls that start with call s.
RECURSIVE CountIn(_, _, _)
CountIn(s, n, i) ==
    IF n = 0 THEN 0
    ELSE (IF hist[s + n - 1] = i THEN 1 ELSE 0) + CountIn(s, n - 1, i)

\* C11: on a selector built with NewWeightedRoundRobin(weights) and only
\* dispatched on, every run of sum-of-weights consecutive Dispatch calls
\* (after the N calls of round 0) returns handler i weights[i] times.
BuiltSelectorIsProportional ==
    LET sum == SliceSum(wrr.weights) IN
    \A s \in 1 .. Len(hist) :
        (s > NumHandlers /\ s + sum - 1 <= Len(hist)) =>
            \A i \in Handlers : CountIn(s, sum, i) = wrr.weights[i]

(***************************************************************************)
(* The estimator (TickSpec).                                               *)
(***************************************************************************)
\* C12: every cap[i] is at least 0.1, after construction and after every
\* tick, whatever counts the tick read and whatever the configuration.
CapsAtLeastMinCap ==
    \A i \in Handlers : caps[i] >= MinCap

\* A tick under a configuration other than the default has brought a
\* capacity down to the floor while another handler stays above it.
CapAtFloorAfterTick ==
    /\ nTicks >= 1
    /\ \E i, j \in Handlers : caps[i] = MinCap /\ caps[j] > MinCap

\* C13: after construction and after every tick every weight lies in
\* [0, 100], and the sum of the weights is at most 100 and at least 100 - N.
WeightsInRange ==
    /\ \A i \in Handlers : wrr.weights[i] \in 0 .. Percent
    /\ SliceSum(wrr.weights) <= Percent
    /\ SliceSum(wrr.weights) >= Percent - NumHandlers

\* A tick has published weights that differ and fall short of 100.
UnevenWeightsBelowPercent ==
    /\ nTicks >= 1
    /\ SliceSum(wrr.weights) < Percent
    /\ \E i, j \in Handlers : wrr.weights[i] < wrr.weights[j]
    /\ wrr.rounds = SliceMax(wrr.weights)

(***************************************************************************)
(* Destroy (CallSpec, FairCallSpec).                                       *)
(***************************************************************************)
\* C14: a Destroy call does not block, whether or not Start was called and
\* wherever the tick task is: in every state reached with fewer than DoneCap
\* Destroy calls so far, the send of a Destroy call made now goes through.
DestroyDoesNotBlock ==
    nDestroys < DoneCap => ~SendBlocks(done)

\* Two Destroy calls have returned while the tick task, in a tick, has
\* taken neither token.
DestroyedTwiceDuringTick ==
    /\ nDestroys = DoneCap
    /\ done = DoneCap
    /\ mut = TickTask

\* C15: once Destroy has been called on a started balancer the tick task
\* eventually exits, and after it has exited no step, of Dispatch or of
\* anything else, changes caps, the weights or rounds.
DestroyStopsTheEstimator ==
    /\ (nDestroys >= 1 /\ tickPc # "none") ~> (tickPc = "exited")
    /\ [][tickPc = "exited" =>
            /\ tickPc' = "exited"
            /\ caps' = caps
            /\ wrr'.weights = wrr.weights
            /\ wrr'.rounds = wrr.rounds]_vars

\* A Dispatch call selects its index after the tick task, which had run its
\* ticks, has exited.
SelectingAfterExit ==
    /\ tickPc = "exited"
    /\ nTicks = MaxTicks
    /\ pc[Caller] = "unlock"
    /\ index[Caller] \in Handlers

\* C17: before the first tick cap[i] = max(EstCap_i, 1) and
\* GetWeights()[i] = floor(cap[i] / sum(cap) * 100) for every i, so handlers
\* with equal hints have equal weights.
ConstructionHonoursHints ==
    nTicks = 0 =>
        /\ \A i \in Handlers :
              /\ caps[i] = (IF handlerEstCap[i] >= 1 THEN handlerEstCap[i] ELSE 1) * CapScale
              /\ GetWeights(wrr)[i] * SliceSum(caps) <= caps[i] * Percent
              /\ (GetWeights(wrr)[i] + 1) * SliceSum(caps) > caps[i] * Percent
        /\ \A i, j \in Handlers :
              handlerEstCap[i] = handlerEstCap[j] => GetWeights(wrr)[i] = GetWeights(wrr)[j]

\* A new balancer, not started, whose first hint is 0 and whose last is
\* MaxEstCap.
BuiltWithUnevenHints ==
    /\ nTicks = 0
    /\ tickPc = "none"
    /\ handlerEstCap[0] = 0
    /\ handlerEstCap[NumHandlers - 1] = MaxEstCap
    /\ GetWeights(wrr)[0] < GetWeights(wrr)[NumHandlers - 1]

(***************************************************************************)
(* The backoff (BackoffSpec).                                              *)
(***************************************************************************)
\* C18: the sleep before retry number k of a call (k = attempts, from 0)
\* lasts BackoffUnit * 2^k while k <= BackoffMaxExponent, and
\* BackoffUnit * 2^BackoffMaxExponent for every later k.
BackoffDoublesThenPlateaus ==
    \A d \in Dispatchers :
        pc[d] = "backoff" =>
            /\ attempts[d] + 1 = obs[d].sleeps
            /\ attempts[d] <= BackoffMaxExponent => sleepFor[d] = Pow2(attempts[d])
            /\ attempts[d] > BackoffMaxExponent => sleepFor[d] = Pow2(BackoffMaxExponent)

\* The caller sleeps before a retry past BackoffMaxExponent.
SleepingAtPlateau ==
    /\ pc[Caller] = "backoff"
    /\ attempts[Caller] = BackoffMaxExponent + 1
    /\ sleepFor[Caller] = Pow2(BackoffMaxExponent)

(***************************************************************************)
(* Retries under concurrency (Spec).                                       *)
(***************************************************************************)
\* C19: every handler invocation of one Dispatch call, the first and every
\* retry, goes to the index chosen in the call's selection step, whatever
\* ticks and other dispatchers have done to the selector in between.
RetriesKeepTheIndex ==
    \A d \in Dispatchers :
        /\ obs[d].invoked \subseteq {obs[d].chosen}
        /\ pc[d] \in {"unlock", "loop", "handler", "backoff", "returned"} =>
              index[d] = obs[d].chosen /\ index[d] \in Handlers

\* A caller is in its second invocation, on the handler it chose, after a
\* tick and another caller have left the selector at a different handler.
RetryAfterSelectorMoved ==
    \E d, e \in Dispatchers :
        /\ d # e
        /\ pc[d] = "handler"
        /\ obs[d].invocations = 2
        /\ obs[d].invoked = {index[d]}
        /\ nTicks >= 1
        /\ pc[e] \in {"loop", "handler", "backoff", "returned"}
        /\ WRRDispatch(wrr).index # index[d]

(***************************************************************************)
(* The counters under concurrency (Spec).                                  *)
(***************************************************************************)
\* C20: nothing is added to calls[i] or rejections[i] between a tick's read
\* of the counter and its reset: the value a tick is about to replace by 0
\* is the value it has read.
ResetLosesNoIncrement ==
    /\ tickPc = "storeCalls" => calls[tickI] = tickCalls
    /\ tickPc = "storeRejects" => rejections[tickI] = tickRejects

(***************************************************************************)
(* The selector's cursor (SelSpec).                                        *)
(***************************************************************************)
\* C21: in every state of the selector reached by Dispatch and UpdateWeights
\* calls, 0 <= currRound <= rounds.
RoundCursorWithinRounds ==
    /\ 0 <= wrr.currRound
    /\ wrr.currRound <= wrr.rounds

(***************************************************************************)
(* The rounds of the selector (RoundSpec).                                 *)
(***************************************************************************)
\* The k-th recorded return is the first of a round: the cursor wrapped
\* (currIndex back to 0) between the return before it and this one.
NewRound(k) ==
    \/ k = 1
    \/ hist[k].round # hist[k - 1].round
    \/ hist[k].index <= hist[k - 1].index

\* The recorded returns a..b are those of one whole round: the round began
\* and ended under the weights now installed.
WholeRound(a, b) ==
    /\ 1 < a
    /\ a <= b
    /\ b < Len(hist)
    /\ NewRound(a)
    /\ NewRound(b + 1)
    /\ \A k \in (a + 1) .. b : ~NewRound(k)

\* The handlers round r is to serve: weights[i] >= r.
ServedInRound(r) == {i \in DOMAIN wrr.weights : wrr.weights[i] >= r}

\* C22: under fixed weights, a round r in 1..rounds returns every handler of
\* weight >= r exactly once, in increasing index order, and no handler of
\* weight < r; with weights [1, 5, 2] (rounds = 5) the eight returns that
\* begin with round 1 are 0,1,2,1,2,1,1,1.
RoundsServeByWeight ==
    LET n == Len(hist)
        exampleWeights == [i \in 0 .. 2 |-> <<1, 5, 2>>[i + 1]]
        exampleCycle == <<0, 1, 2, 1, 2, 1, 1, 1>>
    IN
    /\ \A k \in 1 .. n :
          hist[k].round \in 1 .. wrr.rounds =>
              wrr.weights[hist[k].index] >= hist[k].round
    /\ \A a, b \in 1 .. n :
          (WholeRound(a, b) /\ hist[a].round \in 1 .. wrr.rounds) =>
              /\ \A k \in a .. b : hist[k].round = hist[a].round
              /\ \A k \in (a + 1) .. b : hist[k - 1].index < hist[k].index
              /\ {hist[k].index : k \in a .. b} = ServedInRound(hist[a].round)
    /\ (wrr.weights = exampleWeights /\ wrr.rounds = SliceMax(exampleWeights)) =>
          \A a \in 2 .. n :
              (/\ hist[a].round = 1
               /\ hist[a - 1].round # 1
               /\ a + Len(exampleCycle) - 1 <= n) =>
                  [k \in 1 .. Len(exampleCycle) |-> hist[a + k - 1].index]
                      = exampleCycle

\* With weights [1, 5, 2] installed on a new selector, round 0 and the whole
\* cycle of rounds 1..5 have been returned.
ExampleCycleReturned ==
    /\ DOMAIN wrr.weights = 0 .. 2
    /\ wrr.weights[0] = 1 /\ wrr.weights[1] = 5 /\ wrr.weights[2] = 2
    /\ wrr.rounds = 5
    /\ Len(hist) >= 11
    /\ hist[1].round = 0
    /\ hist[4].round = 1
    /\ hist[11].round = 5

(***************************************************************************)
(* An idle handler (IdleSpec).                                             *)
(***************************************************************************)
\* Handler 1, idle in the tick recorded as h, had its cap multiplied by 0.99
\* and floored at 0.1.
IdleCapDecayed(h) ==
    h.capsAfter[1] = Max(MulScaled(h.capsBefore[1], IdleDecay), MinCap)

\* The weights did not move away from handler 0 in the tick recorded as h.
WeightsTowardZero(h) ==
    /\ h.weightsAfter[0] >= h.weightsBefore[0]
    /\ h.weightsAfter[1] <= h.weightsBefore[1]

\* C23 as stated: with every Dispatch completing on handler 0 (one or more
\* per tick) and handler 1 idle, each tick multiplies cap[1] by 0.99 (floored
\* at 0.1), weight[0] never decreases and weight[1] never increases.
IdleDecayShiftsWeights ==
    \A k \in 1 .. Len(hist) :
        IdleCapDecayed(hist[k]) /\ WeightsTowardZero(hist[k])

\* C23, amended: each tick multiplies cap[1] by 0.99 (floored at 0.1), and a
\* tick that does not lower cap[0] does not decrease weight[0] nor increase
\* weight[1].
IdleDecayShiftsWeightsUnlessCapDrops ==
    \A k \in 1 .. Len(hist) :
        /\ IdleCapDecayed(hist[k])
        /\ hist[k].capsAfter[0] >= hist[k].capsBefore[0] => WeightsTowardZero(hist[k])

\* After IdleTicks ticks, the last of which did not lower cap[0], weight has
\* moved from handler 1 to handler 0 and cap[1] is below its initial value.
WeightMovedToBusyHandler ==
    /\ Len(hist) = IdleTicks
    /\ hist[IdleTicks].capsAfter[0] >= hist[IdleTicks].capsBefore[0]
    /\ hist[IdleTicks].weightsAfter[0] > hist[IdleTicks].weightsBefore[0]
    /\ hist[IdleTicks].weightsAfter[1] < hist[IdleTicks].weightsBefore[1]
    /\ caps[1] < hist[1].capsBefore[1]

(***************************************************************************)
(* The selector inside the balancer (Spec).                                *)
(***************************************************************************)
\* C24: whenever the mutex is free, and whenever a dispatcher is at its
\* selection step, rounds is the maximum of the weight vector in force.
RoundsMatchWeightsOutsideUpdate ==
    /\ mut = Free => wrr.rounds = SliceMax(GetWeights(wrr))
    /\ \A d \in Dispatchers :
          pc[d] = "select" => wrr.rounds = SliceMax(GetWeights(wrr))

\* A tick has replaced the weights by a vector with another maximum and has
\* released the mutex, and a dispatcher is about to take it.
WeightsReplacedAndUnlocked ==
    /\ nTicks >= 1
    /\ mut = Free
    /\ wrr.rounds # NewLoadBalancerWRR(handlerEstCap).rounds
    /\ \E d \in Dispatchers : pc[d] = "lock"

(***************************************************************************)
(* Exploration (ExploreSpec).                                              *)
(***************************************************************************)
\* The selector after k Dispatch calls on r.
RECURSIVE SelectorAfter(_, _)
SelectorAfter(r, k) ==
    IF k = 0 THEN r ELSE SelectorAfter(WRRDispatch(r).rr, k - 1)

\* The indices that k Dispatch calls on r return.
RECURSIVE SelectorReturns(_, _)
SelectorReturns(r, k) ==
    IF k = 0 THEN <<>>
    ELSE <<WRRDispatch(r).index>> \o SelectorReturns(WRRDispatch(r).rr, k - 1)

\* The selections recorded that were not exploring picks.
NonExploring == SelectSeq(hist, LAMBDA h : ~h.explored)

\* C25: an exploring pick leaves the selector's cursor alone: the selector is
\* where the non-exploring calls alone have left it, and these calls got the
\* indices they would have got with no exploring call among them; no pick is
\* exploring when there is one handler or ExplorationRate is 0.
ExplorationLeavesSelectorAlone ==
    LET built == NewLoadBalancerWRR(handlerEstCap)
        k == Len(NonExploring)
    IN
    /\ wrr = SelectorAfter(built, k)
    /\ [j \in 1 .. k |-> NonExploring[j].index] = SelectorReturns(built, k)
    /\ \A j \in 1 .. Len(hist) :
          hist[j].explored => (LenWeights(wrr) > 1 /\ explorationRate > 0)

\* An exploring pick of a handler other than the selector's next one was made
\* between two calls that asked the selector.
ExploredBetweenSelectorCalls ==
    /\ Len(hist) >= 3
    /\ ~hist[1].explored
    /\ hist[2].explored
    /\ ~hist[3].explored
    /\ hist[2].index # hist[3].index

====
